---- MODULE Spec2Model ----
(***************************************************************************)
(* A model of keras_core/backend/torch/core.py: the dtype table, the       *)
(* process-wide device override, tensor conversion, Variable, shape        *)
(* inference (compute_output_spec), scatter / scatter_update, slice /      *)
(* slice_update and while_loop.                                            *)
(*                                                                         *)
(* Python's None is written "None" where the value is a name (a device, a  *)
(* dtype) and NoneDim where it is a shape entry.                           *)
(***************************************************************************)
EXTENDS Integers, Sequences, FiniteSets, TLC

VARIABLES
    \* global_state's "torch_device" attribute and the open device_scope blocks
    torch_device, scope_stack, entered, raising,
    \* while_loop's locals
    wl_pc, wl_cond, wl_body, wl_max, wl_init, loop_vars, current_iter,
    \* torch.cuda.is_available()
    cuda_available,
    \* the Variables: declared dtype, held tensor, device active at construction
    var_dtype, var_value, var_ctor_device,
    \* a call of to_torch_dtype and the name of its result
    dt_pc, dt_in, dt_native, dt_back,
    \* convert_to_tensor applied once and then to its own result
    cv_pc, cv_x, cv_once, cv_twice,
    \* compute_output_spec: its arguments, the two trial outputs, the result
    cs_pc, cs_fn, cs_args, cs_fills, outputs_1, outputs_2, cs_outputs, output_spec,
    \* scatter: its arguments, the tensor being filled, the row reached
    sc_pc, sc_indices, sc_values, sc_shape, zeros, sc_i,
    \* scatter_update: its arguments and its result
    su_pc, su_inputs, su_indices, su_updates, su_out,
    \* slice_update followed by slice
    sl_pc, sl_t, sl_start, sl_updates, sl_inputs, sl_out

devVars == <<torch_device, scope_stack, entered, raising>>
wlVars == <<wl_pc, wl_cond, wl_body, wl_max, wl_init, loop_vars, current_iter>>
varVars == <<var_dtype, var_value, var_ctor_device>>
dtVars == <<dt_pc, dt_in, dt_native, dt_back>>
cvVars == <<cv_pc, cv_x, cv_once, cv_twice>>
csVars == <<cs_pc, cs_fn, cs_args, cs_fills, outputs_1, outputs_2, cs_outputs, output_spec>>
scVars == <<sc_pc, sc_indices, sc_values, sc_shape, zeros, sc_i>>
suVars == <<su_pc, su_inputs, su_indices, su_updates, su_out>>
slVars == <<sl_pc, sl_t, sl_start, sl_updates, sl_inputs, sl_out>>
opVars == <<csVars, scVars, suVars, slVars>>
vars == <<devVars, wlVars, cuda_available, varVars, dtVars, cvVars, opVars>>

\* What an action of one part leaves alone.
ExceptDevice == <<wlVars, cuda_available, varVars, dtVars, cvVars, opVars>>
ExceptWhile == <<devVars, cuda_available, varVars, dtVars, cvVars, opVars>>
ExceptVariable == <<devVars, wlVars, cuda_available, dtVars, cvVars, opVars>>
ExceptDtype == <<devVars, wlVars, cuda_available, varVars, cvVars, opVars>>
ExceptConvert == <<devVars, wlVars, cuda_available, varVars, dtVars, opVars>>
ExceptInfer ==
    <<devVars, wlVars, cuda_available, varVars, dtVars, cvVars, scVars, suVars, slVars>>
ExceptScatter ==
    <<devVars, wlVars, cuda_available, varVars, dtVars, cvVars, csVars, suVars, slVars>>
ExceptScatterUpdate ==
    <<devVars, wlVars, cuda_available, varVars, dtVars, cvVars, csVars, scVars, slVars>>
ExceptSlice ==
    <<devVars, wlVars, cuda_available, varVars, dtVars, cvVars, csVars, scVars, suVars>>

(***************************************************************************)
(* Bounds of the model.                                                    *)
(***************************************************************************)
MaxDepth == 4
MaxK == 5
MaxInit == 2
MaxCap == 3
MaxIter == 7
MaxCtxDepth == 1
MaxRank == 2
MaxDim == 3
MaxRows == 2

Min(a, b) == IF a < b THEN a ELSE b

(***************************************************************************)
(* device_scope and get_device.                                            *)
(***************************************************************************)
Devices == {"cpu", "cuda"}
DeviceArgs == Devices \cup {"None"}

InitDevice ==
    /\ torch_device = "None"
    /\ scope_stack = <<>>
    /\ entered = <<>>
    /\ raising = FALSE

\* The value the finally clause writes back when the block is left.
ExitDeviceBroken(previous_device, current, exc) ==
    IF exc THEN current ELSE previous_device

ExitDevice(previous_device, current, exc) == previous_device

\* __enter__: the generator runs up to its yield.  entered records, beside the
\* generator's own local, the override the caller saw when it entered.
DeviceScopeEnter(device, depth) ==
    /\ ~raising
    /\ Len(scope_stack) < depth
    /\ scope_stack' = Append(scope_stack, [previous_device |-> torch_device])
    /\ entered' = Append(entered, torch_device)
    /\ torch_device' = device
    /\ UNCHANGED raising

\* The body of the innermost open block raises.
BodyRaise ==
    /\ ~raising
    /\ scope_stack # <<>>
    /\ raising' = TRUE
    /\ UNCHANGED <<torch_device, scope_stack, entered>>

\* __exit__ of the innermost open block, on a normal return or while an
\* exception unwinds through it.
DeviceScopeExit ==
    /\ scope_stack # <<>>
    /\ LET n == Len(scope_stack)
       IN /\ torch_device' =
                ExitDevice(scope_stack[n].previous_device, torch_device, raising)
          /\ scope_stack' = SubSeq(scope_stack, 1, n - 1)
          /\ entered' = SubSeq(entered, 1, n - 1)
    /\ UNCHANGED raising

\* A caller's except clause ends the unwinding at the current depth.
CatchException ==
    /\ raising
    /\ raising' = FALSE
    /\ UNCHANGED <<torch_device, scope_stack, entered>>

GetDevice(override, cuda) ==
    IF override = "None" THEN (IF cuda THEN "cuda" ELSE "cpu") ELSE override

NextDevice ==
    \/ \E d \in DeviceArgs : DeviceScopeEnter(d, MaxDepth) /\ UNCHANGED ExceptDevice
    \/ BodyRaise /\ UNCHANGED ExceptDevice
    \/ DeviceScopeExit /\ UNCHANGED ExceptDevice
    \/ CatchException /\ UNCHANGED ExceptDevice

(***************************************************************************)
(* while_loop.  cond and body are drawn from small families over integer   *)
(* loop variables; body also chooses the container it returns.             *)
(***************************************************************************)
Conds == [op : {"lt"}, k : 0..MaxK] \cup [op : {"true"}, k : {0}]
Bodies == {"inc", "inc2", "acc", "id", "inc_list", "inc_scalar"}
\* maximum_iterations=None
NoCap == -1
Caps == {NoCap} \cup 0..MaxCap

EvalCond(c, lv) == IF c.op = "true" THEN TRUE ELSE lv[1] < c.k

\* What body(*loop_vars) returns: a tuple, a list or a bare value.
EvalBody(b, lv) ==
    CASE b = "inc" -> [kind |-> "tuple", items |-> [lv EXCEPT ![1] = @ + 1]]
      [] b = "inc2" -> [kind |-> "tuple", items |-> [lv EXCEPT ![1] = @ + 2]]
      [] b = "acc" -> [kind |-> "tuple",
                       items |-> [i \in 1..Len(lv) |->
                                    IF i = 1 THEN lv[1] + 1 ELSE lv[i] + lv[1]]]
      [] b = "id" -> [kind |-> "tuple", items |-> lv]
      [] b = "inc_list" -> [kind |-> "list", items |-> [lv EXCEPT ![1] = @ + 1]]
      [] b = "inc_scalar" -> [kind |-> "scalar", items |-> <<lv[1] + 1>>]

\* loop_vars = tuple(loop_vars), after wrapping a bare value
Normalize(r) == r.items

IterationCheckOffByOne(iter, maximum_iterations) ==
    maximum_iterations = NoCap \/ iter <= maximum_iterations

IterationCheck(iter, maximum_iterations) ==
    maximum_iterations = NoCap \/ iter < maximum_iterations

InitWhile ==
    /\ wl_pc = "idle"
    /\ wl_cond = [op |-> "true", k |-> 0]
    /\ wl_body = "id"
    /\ wl_max = NoCap
    /\ wl_init = <<0>>
    /\ loop_vars = <<0>>
    /\ current_iter = 0

WhileCall ==
    /\ wl_pc = "idle"
    /\ \E c \in Conds, b \in Bodies, m \in Caps,
          lv \in [1..1 -> 0..MaxInit] \cup [1..2 -> 0..MaxInit] :
          /\ b = "inc_scalar" => Len(lv) = 1
          /\ wl_cond' = c
          /\ wl_body' = b
          /\ wl_max' = m
          /\ wl_init' = lv
          /\ loop_vars' = lv
    /\ current_iter' = 0
    /\ wl_pc' = "loop"

WhileIterate ==
    /\ wl_pc = "loop"
    /\ EvalCond(wl_cond, loop_vars) /\ IterationCheck(current_iter, wl_max)
    /\ current_iter < MaxIter
    /\ loop_vars' = Normalize(EvalBody(wl_body, loop_vars))
    /\ current_iter' = current_iter + 1
    /\ UNCHANGED <<wl_pc, wl_cond, wl_body, wl_max, wl_init>>

WhileReturn ==
    /\ wl_pc = "loop"
    /\ ~(EvalCond(wl_cond, loop_vars) /\ IterationCheck(current_iter, wl_max))
    /\ wl_pc' = "done"
    /\ UNCHANGED <<wl_cond, wl_body, wl_max, wl_init, loop_vars, current_iter>>

NextWhile ==
    \/ WhileCall /\ UNCHANGED ExceptWhile
    \/ WhileIterate /\ UNCHANGED ExceptWhile
    \/ WhileReturn /\ UNCHANGED ExceptWhile

(***************************************************************************)
(* TORCH_DTYPES and to_torch_dtype.  A native dtype is written             *)
(* "torch.<name>", an abstract dtype by its bare name.                     *)
(***************************************************************************)
\* the abstract dtype names the backend supports
SupportedNames ==
    {"float16", "float32", "float64", "uint8", "uint16", "uint32", "int8",
     "int16", "int32", "int64", "bfloat16", "bool"}

\* the table with uint8 taken for the signed 8-bit type
TorchDtypesUint8Signed ==
    [n \in SupportedNames |->
        CASE n = "uint8" -> "torch.int8"
          [] n = "uint16" -> "torch.int32"
          [] n = "uint32" -> "torch.int64"
          [] OTHER -> "torch." \o n]

TORCH_DTYPES ==
    "float16" :> "torch.float16" @@
    "float32" :> "torch.float32" @@
    "float64" :> "torch.float64" @@
    "uint8" :> "torch.uint8" @@
    "uint16" :> "torch.int32" @@
    "uint32" :> "torch.int64" @@
    "int8" :> "torch.int8" @@
    "int16" :> "torch.int16" @@
    "int32" :> "torch.int32" @@
    "int64" :> "torch.int64" @@
    "bfloat16" :> "torch.bfloat16" @@
    "bool" :> "torch.bool"

\* str(dtype).split(".")[-1] of each native dtype, as standardize_dtype takes it
TorchName ==
    "torch.float16" :> "float16" @@
    "torch.float32" :> "float32" @@
    "torch.float64" :> "float64" @@
    "torch.uint8" :> "uint8" @@
    "torch.int8" :> "int8" @@
    "torch.int16" :> "int16" @@
    "torch.int32" :> "int32" @@
    "torch.int64" :> "int64" @@
    "torch.bfloat16" :> "bfloat16" @@
    "torch.bool" :> "bool" @@
    "torch.complex64" :> "complex64"

\* isinstance(dtype, torch.dtype)
IsTorchDtype(dtype) == dtype \in DOMAIN TorchName

\* config.floatx()
FloatX == "float32"

StandardizeDtype(dtype) ==
    IF dtype = "None" THEN FloatX
    ELSE IF IsTorchDtype(dtype) THEN TorchName[dtype]
    ELSE dtype

ToTorchDtype(dtype) ==
    IF IsTorchDtype(dtype) THEN dtype
    ELSE LET name == StandardizeDtype(dtype)
         IN IF name \in DOMAIN TORCH_DTYPES THEN TORCH_DTYPES[name]
            ELSE "ValueError"

\* names the framework knows that have no entry in the table, and one it does not
UnmappedNames == {"uint64", "string", "float128"}
DtypeArgs == DOMAIN TORCH_DTYPES \cup UnmappedNames \cup DOMAIN TorchName

InitDtype ==
    /\ dt_pc = "idle"
    /\ dt_in = "None"
    /\ dt_native = "None"
    /\ dt_back = "None"

ResolveDtype ==
    /\ dt_pc = "idle"
    /\ \E d \in DtypeArgs :
          /\ dt_in' = d
          /\ dt_native' = ToTorchDtype(d)
          /\ dt_pc' = IF ToTorchDtype(d) = "ValueError" THEN "raised" ELSE "resolved"
    /\ UNCHANGED dt_back

NameBack ==
    /\ dt_pc = "resolved"
    /\ dt_back' = StandardizeDtype(dt_native)
    /\ dt_pc' = "named"
    /\ UNCHANGED <<dt_in, dt_native>>

(***************************************************************************)
(* Tensors and convert_to_tensor.  A value is a record: kind, dtype (its   *)
(* dtype attribute, "None" when it has none), elem (the dtype of the       *)
(* tensors a list holds), device, vals (its contents) and id (which        *)
(* object it is; 0 for an object nobody else holds).                       *)
(***************************************************************************)
Vals == {0, 5}
TensorDtypes == {"torch.float32", "torch.int64", "torch.bool"}
ArrayDtypes == {"int64", "uint32", "float64"}
VarIds == {1, 2}

Tensor(dt, dev, v, id) ==
    [kind |-> "tensor", dtype |-> dt, elem |-> "None", device |-> dev,
     vals |-> v, id |-> id]

Raised(e) ==
    [kind |-> "error", dtype |-> e, elem |-> "None", device |-> "None",
     vals |-> 0, id |-> 0]

Uninit ==
    [kind |-> "uninit", dtype |-> "None", elem |-> "None", device |-> "None",
     vals |-> 0, id |-> 0]

\* the representation of a value in a dtype
CastVal(v, dt) ==
    IF dt = "torch.bool" THEN (IF v = 0 THEN 0 ELSE 1)
    ELSE IF dt = "torch.uint8" THEN v % 256
    ELSE v

\* x.to(dtype)
ToDtype(t, dt) ==
    IF t.dtype = dt THEN t
    ELSE [t EXCEPT !.dtype = dt, !.vals = CastVal(@, dt), !.id = 0]

\* x.to(device)
ToDevice(t, dev, cuda) ==
    IF t.device = dev THEN t
    ELSE IF dev = "cuda" /\ ~cuda THEN Raised("RuntimeError")
    ELSE [t EXCEPT !.device = dev, !.id = 0]

\* torch.stack(x)
Stack(x) == Tensor(x.elem, x.device, x.vals, 0)

AsTensorOnCpu(x, dt, dev, cuda) ==
    Tensor(dt, "cpu", CastVal(x.vals, dt), 0)

\* torch.as_tensor(x, dtype=dtype, device=get_device())
AsTensor(x, dt, dev, cuda) ==
    IF dev = "cuda" /\ ~cuda THEN Raised("RuntimeError")
    ELSE Tensor(dt, dev, CastVal(x.vals, dt), 0)

ConvertToTensor(x, dtype, override, cuda) ==
    LET dt == ToTorchDtype(IF dtype # "None" THEN dtype ELSE x.dtype)
        dev == GetDevice(override, cuda)
    IN  IF dt = "ValueError" THEN Raised("ValueError")
        ELSE IF x.kind = "variable" THEN var_value[x.id]
        ELSE IF x.kind = "tensor" THEN ToDevice(ToDtype(x, dt), dev, cuda)
        ELSE IF x.kind = "tensor_list" THEN Stack(x)
        ELSE AsTensor(x, dt, dev, cuda)

\* The values a caller can hold: host values, tensors on the devices that
\* exist, lists of such tensors, and the Variables constructed so far.
AvailableDevices == IF cuda_available THEN Devices ELSE {"cpu"}

HostValues ==
    [kind : {"scalar", "list"}, dtype : {"None"}, elem : {"None"},
     device : {"host"}, vals : Vals, id : {0}]
    \cup [kind : {"ndarray"}, dtype : ArrayDtypes, elem : {"None"},
          device : {"host"}, vals : Vals, id : {0}]

TensorValues ==
    [kind : {"tensor"}, dtype : TensorDtypes, elem : {"None"},
     device : AvailableDevices, vals : Vals, id : {0}]

TensorLists ==
    [kind : {"tensor_list"}, dtype : {"None"}, elem : TensorDtypes,
     device : AvailableDevices, vals : Vals, id : {0}]

VariableValues ==
    {[kind |-> "variable", dtype |-> var_dtype[v], elem |-> "None",
      device |-> "host", vals |-> 0, id |-> v] :
        v \in {w \in VarIds : var_value[w].kind = "tensor"}}

InitConvert ==
    /\ cv_pc = "idle"
    /\ cv_x = Uninit
    /\ cv_once = Uninit
    /\ cv_twice = Uninit

\* convert_to_tensor(x)
ConvertOnce ==
    /\ cv_pc = "idle"
    /\ \E x \in HostValues \cup TensorValues \cup TensorLists \cup VariableValues :
          /\ cv_x' = x
          /\ cv_once' = ConvertToTensor(x, "None", torch_device, cuda_available)
    /\ cv_pc' = "once"
    /\ UNCHANGED cv_twice

\* convert_to_tensor(convert_to_tensor(x)), the device context left as it was
ConvertTwice ==
    /\ cv_pc = "once"
    /\ cv_once.kind = "tensor"
    /\ cv_twice' = ConvertToTensor(cv_once, "None", torch_device, cuda_available)
    /\ cv_pc' = "twice"
    /\ UNCHANGED <<cv_x, cv_once>>

(***************************************************************************)
(* Variable.                                                               *)
(***************************************************************************)
DeclaredDtypes == {"float32", "int32"}

IsFloating(dt) ==
    dt \in {"torch.float16", "torch.float32", "torch.float64", "torch.bfloat16"}

InitVariable ==
    /\ var_dtype = [v \in VarIds |-> "None"]
    /\ var_value = [v \in VarIds |-> Uninit]
    /\ var_ctor_device = [v \in VarIds |-> "None"]

\* Variable._initialize(value) of Variable v, whose declared dtype is dtype.
\* torch.nn.Parameter refuses requires_grad on a dtype that is not floating.
Initialize(v, value, dtype, trainable) ==
    /\ var_value[v].kind = "uninit"
    /\ LET t == ConvertToTensor(value, dtype, torch_device, cuda_available)
           dev == GetDevice(torch_device, cuda_available)
       IN /\ t.kind = "tensor"
          /\ trainable => IsFloating(t.dtype)
          /\ ToDevice(t, dev, cuda_available).kind = "tensor"
          /\ var_value' =
                [var_value EXCEPT
                    ![v] = [ToDevice(t, dev, cuda_available) EXCEPT !.id = v]]
          /\ var_dtype' = [var_dtype EXCEPT ![v] = dtype]
          /\ var_ctor_device' = [var_ctor_device EXCEPT ![v] = dev]

\* Variable._direct_assign(value): self.value.copy_(value)
DirectAssign(v, value) ==
    /\ var_value[v].kind = "tensor"
    /\ var_value' =
          [var_value EXCEPT ![v].vals = CastVal(value.vals, var_value[v].dtype)]
    /\ UNCHANGED <<var_dtype, var_ctor_device>>

\* No call of to_torch_dtype or convert_to_tensor is under way.
Quiet == dt_pc = "idle" /\ cv_pc = "idle"

NextVariable ==
    \/ /\ Quiet
       /\ \E d \in DeviceArgs : DeviceScopeEnter(d, MaxCtxDepth)
       /\ UNCHANGED ExceptDevice
    \/ /\ Quiet
       /\ DeviceScopeExit
       /\ UNCHANGED ExceptDevice
    \/ /\ Quiet
       /\ \E v \in VarIds, dtype \in DeclaredDtypes, trainable \in BOOLEAN,
             value \in HostValues \cup TensorValues \cup VariableValues :
             Initialize(v, value, dtype, trainable)
       /\ UNCHANGED ExceptVariable
    \/ /\ Quiet
       /\ \E v \in VarIds, value \in TensorValues : DirectAssign(v, value)
       /\ UNCHANGED ExceptVariable
    \/ /\ Quiet
       /\ ResolveDtype
       /\ UNCHANGED ExceptDtype
    \/ NameBack /\ UNCHANGED ExceptDtype
    \/ /\ Quiet
       /\ ConvertOnce
       /\ UNCHANGED ExceptConvert
    \/ ConvertTwice /\ UNCHANGED ExceptConvert

(***************************************************************************)
(* compute_output_spec.  A nested value is a tree: a leaf                  *)
(* [node |-> "leaf", val |-> v] or a sequence [node |-> "seq", items |->   *)
(* <<trees>>].  A leaf value is a tensor (kind "tensor", a shape, a native *)
(* dtype), a KerasTensor (kind "KerasTensor", a shape that may hold        *)
(* NoneDim, a dtype name) or anything else (kind "other").                 *)
(***************************************************************************)
\* None as an entry of KerasTensor.shape
NoneDim == -1

\* the fill_value of the first and of the second trial
FirstFill == 83
SecondFill == 89

Leaf(v) == [node |-> "leaf", val |-> v]
Tree(items) == [node |-> "seq", items |-> items]

TorchTensor(shape, dt) == [kind |-> "tensor", shape |-> shape, dtype |-> dt]
KerasTensor(shape, dt) == [kind |-> "KerasTensor", shape |-> shape, dtype |-> dt]
Other == [kind |-> "other", shape |-> <<>>, dtype |-> "None"]

\* nest.flatten
RECURSIVE Flatten(_)
RECURSIVE FlattenItems(_, _)
FlattenItems(items, i) ==
    IF i > Len(items) THEN <<>>
    ELSE Flatten(items[i]) \o FlattenItems(items, i + 1)
Flatten(t) ==
    IF t.node = "leaf" THEN <<t.val>> ELSE FlattenItems(t.items, 1)

\* nest.pack_sequence_as(structure, flat): the leaves of structure replaced,
\* in order, by the entries of flat.
RECURSIVE PackSequenceAs(_, _)
RECURSIVE PackItems(_, _, _)
PackItems(items, flat, i) ==
    IF i > Len(items) THEN <<>>
    ELSE LET n == Len(Flatten(items[i]))
         IN  <<PackSequenceAs(items[i], SubSeq(flat, 1, n))>>
             \o PackItems(items, SubSeq(flat, n + 1, Len(flat)), i + 1)
PackSequenceAs(t, flat) ==
    IF t.node = "leaf" THEN Leaf(flat[1]) ELSE Tree(PackItems(t.items, flat, 1))

\* has_none_shape and none_in_shape
HasNoneShape(x) ==
    x.kind = "KerasTensor" /\ \E i \in 1..Len(x.shape) : x.shape[i] = NoneDim

NoneInShape(args) == \E a \in 1..Len(args) : HasNoneShape(args[a])

ConvertKerasTensorToTorch(x, fill_value) ==
    IF x.kind = "KerasTensor"
    THEN TorchTensor([i \in 1..Len(x.shape) |->
                        IF x.shape[i] = NoneDim THEN fill_value ELSE x.shape[i]],
                     TORCH_DTYPES[x.dtype])
    ELSE x

ConvertArgs(args, fill_value) ==
    [a \in 1..Len(args) |-> ConvertKerasTensorToTorch(args[a], fill_value)]

\* convert_torch_to_keras_tensor
ConvertTorchToKerasTensor(x) ==
    IF x.kind = "tensor" THEN KerasTensor(x.shape, StandardizeDtype(x.dtype)) ELSE x

\* nest.map_structure(convert_torch_to_keras_tensor, outputs)
RECURSIVE MapConvert(_)
MapConvert(t) ==
    IF t.node = "leaf" THEN Leaf(ConvertTorchToKerasTensor(t.val))
    ELSE Tree([i \in 1..Len(t.items) |-> MapConvert(t.items[i])])

MergeAxisKeepFirst(e1, e2) == e1

\* one axis of the comparison of the two trials
MergeAxis(e1, e2) == IF e2 # e1 THEN NoneDim ELSE e1

\* the KerasTensor built from one pair of trial outputs
MergeTrials(x1, x2) ==
    KerasTensor([i \in 1..Len(x1.shape) |-> MergeAxis(x1.shape[i], x2.shape[i])],
                StandardizeDtype(x1.dtype))

(***************************************************************************)
(* The functions handed to compute_output_spec.  A function is a tree of   *)
(* leaf descriptions.  A described tensor takes its dtype, and the axes    *)
(* that are not constant, from one argument: form "like" has that          *)
(* argument's shape, form "axes" gives each axis as a constant c, as the   *)
(* argument's axis ax, as that axis plus c, times c, or cut at c.          *)
(***************************************************************************)
Axis(op, ax, c) == [op |-> op, ax |-> ax, c |-> c]

Like(arg) ==
    [kind |-> "tensor", form |-> "like", arg |-> arg, axes |-> <<>>, dtype |-> "same"]
Axes(arg, axes, dt) ==
    [kind |-> "tensor", form |-> "axes", arg |-> arg, axes |-> axes, dtype |-> dt]
NotTensor ==
    [kind |-> "other", form |-> "none", arg |-> 0, axes |-> <<>>, dtype |-> "None"]

Fns ==
    << Leaf(Like(1)),
       Leaf(Axes(1, <<Axis("dim", 1, 0), Axis("dim", 2, 0)>>, "same")),
       Leaf(Axes(0, <<Axis("const", 0, 4), Axis("const", 0, 2)>>, "torch.float32")),
       Leaf(Axes(1, <<Axis("dim", 2, 0)>>, "torch.int64")),
       Leaf(Axes(1, <<Axis("plus", 1, 1), Axis("const", 0, 3)>>, "same")),
       Leaf(Axes(1, <<Axis("cut", 1, 85)>>, "same")),
       Leaf(Axes(1, <<Axis("cut", 1, 50), Axis("times", 2, 2)>>, "same")),
       Leaf(Axes(2, <<Axis("dim", 1, 0)>>, "same")),
       Tree(<<Leaf(Like(1)),
              Leaf(Axes(0, <<Axis("const", 0, 4)>>, "torch.float32"))>>),
       Tree(<<Tree(<<Leaf(Like(1)), Leaf(Axes(1, <<Axis("plus", 1, 1)>>, "same"))>>),
              Leaf(Like(1))>>),
       Tree(<<Leaf(Like(1)), Leaf(NotTensor)>>),
       Tree(<<Tree(<<Leaf(NotTensor)>>),
              Leaf(Axes(0, <<Axis("const", 0, 4)>>, "torch.float32"))>>),
       Leaf(NotTensor) >>

AxisSize(e, shape) ==
    CASE e.op = "const" -> e.c
      [] e.op = "dim" -> shape[e.ax]
      [] e.op = "plus" -> shape[e.ax] + e.c
      [] e.op = "times" -> shape[e.ax] * e.c
      [] e.op = "cut" -> Min(shape[e.ax], e.c)

\* Whether evaluating a described leaf raises: it reads an argument that is
\* missing or no tensor, or an axis the argument does not have.
LeafRaises(d, inputs) ==
    /\ d.kind = "tensor"
    /\ d.arg # 0
    /\ \/ d.arg > Len(inputs)
       \/ inputs[d.arg].kind # "tensor"
       \/ \E i \in 1..Len(d.axes) :
             d.axes[i].op # "const" /\ d.axes[i].ax > Len(inputs[d.arg].shape)

LeafValue(d, inputs) ==
    IF d.kind # "tensor" THEN Other
    ELSE TorchTensor(
            IF d.form = "like" THEN inputs[d.arg].shape
            ELSE [i \in 1..Len(d.axes) |->
                    AxisSize(d.axes[i],
                             IF d.arg = 0 THEN <<>> ELSE inputs[d.arg].shape)],
            IF d.dtype = "same" THEN inputs[d.arg].dtype ELSE d.dtype)

\* fn(*args) raises
FnRaises(f, inputs) ==
    \E p \in 1..Len(Flatten(f)) : LeafRaises(Flatten(f)[p], inputs)

\* fn(*args)
RECURSIVE RunFn(_, _)
RunFn(f, inputs) ==
    IF f.node = "leaf" THEN Leaf(LeafValue(f.val, inputs))
    ELSE Tree([i \in 1..Len(f.items) |-> RunFn(f.items[i], inputs)])

KerasDims == {NoneDim, 2, 3}
KerasDtypes == {"float32", "uint16"}
ArgShapes == UNION {[1..r -> KerasDims] : r \in 1..MaxRank}

ArgLists ==
    {<<KerasTensor(s, dt)>> : s \in ArgShapes, dt \in KerasDtypes}
    \cup {<<KerasTensor(s, dt), Other>> : s \in ArgShapes, dt \in KerasDtypes}
    \cup {<<KerasTensor(s, "float32"), KerasTensor(<<d>>, "float32")>> :
            s \in ArgShapes, d \in KerasDims}

InitInfer ==
    /\ cs_pc = "idle"
    /\ cs_fn = 0
    /\ cs_args = <<>>
    /\ cs_fills = <<>>
    /\ outputs_1 = <<>>
    /\ outputs_2 = <<>>
    /\ cs_outputs = <<>>
    /\ output_spec = <<>>

\* compute_output_spec(fn, *args) is called
InferCall ==
    /\ cs_pc = "idle"
    /\ \E f \in 1..Len(Fns), args \in ArgLists :
          /\ cs_fn' = f
          /\ cs_args' = args
    /\ cs_pc' = "trial1"
    /\ UNCHANGED <<cs_fills, outputs_1, outputs_2, cs_outputs, output_spec>>

\* the first trial: outputs_1 = fn(*args_1), outputs = outputs_1
InferTrial1 ==
    /\ cs_pc = "trial1"
    /\ LET inputs == ConvertArgs(cs_args, FirstFill)
       IN  IF FnRaises(Fns[cs_fn], inputs)
           THEN /\ cs_pc' = "fn_raised"
                /\ UNCHANGED <<outputs_1, cs_outputs>>
           ELSE /\ outputs_1' = RunFn(Fns[cs_fn], inputs)
                /\ cs_outputs' = RunFn(Fns[cs_fn], inputs)
                /\ cs_pc' = IF NoneInShape(cs_args) THEN "trial2" ELSE "wrap"
    /\ cs_fills' = Append(cs_fills, FirstFill)
    /\ UNCHANGED <<cs_fn, cs_args, outputs_2, output_spec>>

\* the second trial and the comparison; x1.shape of a leaf that is no tensor
\* is an AttributeError
InferTrial2 ==
    /\ cs_pc = "trial2"
    /\ LET inputs == ConvertArgs(cs_args, SecondFill)
           out2 == RunFn(Fns[cs_fn], inputs)
           flat_out_1 == Flatten(outputs_1)
           flat_out_2 == Flatten(out2)
       IN  IF FnRaises(Fns[cs_fn], inputs)
           THEN /\ cs_pc' = "fn_raised"
                /\ UNCHANGED <<outputs_2, cs_outputs>>
           ELSE /\ outputs_2' = out2
                /\ IF \E p \in 1..Len(flat_out_1) : flat_out_1[p].kind # "tensor"
                   THEN /\ cs_pc' = "attribute_error"
                        /\ UNCHANGED cs_outputs
                   ELSE /\ cs_outputs' =
                              PackSequenceAs(outputs_1,
                                  [p \in 1..Len(flat_out_1) |->
                                      MergeTrials(flat_out_1[p], flat_out_2[p])])
                        /\ cs_pc' = "wrap"
    /\ cs_fills' = Append(cs_fills, SecondFill)
    /\ UNCHANGED <<cs_fn, cs_args, outputs_1, output_spec>>

\* output_spec = nest.map_structure(convert_torch_to_keras_tensor, outputs)
InferReturn ==
    /\ cs_pc = "wrap"
    /\ output_spec' = MapConvert(cs_outputs)
    /\ cs_pc' = "done"
    /\ UNCHANGED <<cs_fn, cs_args, cs_fills, outputs_1, outputs_2, cs_outputs>>

NextInfer ==
    \/ InferCall /\ UNCHANGED ExceptInfer
    \/ InferTrial1 /\ UNCHANGED ExceptInfer
    \/ InferTrial2 /\ UNCHANGED ExceptInfer
    \/ InferReturn /\ UNCHANGED ExceptInfer

(***************************************************************************)
(* Dense tensors for scatter, scatter_update, slice and slice_update: a    *)
(* shape and a function from the coordinates of that shape (tuples         *)
(* counted from 0) to integers.  A bool holds 0 or 1.                      *)
(***************************************************************************)
Shapes ==
    {<<n>> : n \in 1..MaxDim} \cup {<<n, m>> : n \in 1..MaxDim, m \in 1..2}

Coords(shape) ==
    {c \in [1..Len(shape) -> 0..(MaxDim - 1)] :
        \A i \in 1..Len(shape) : c[i] < shape[i]}

Prefix(c, n) == SubSeq(c, 1, n)
Suffix(c, n) == SubSeq(c, n + 1, Len(c))

\* torch.zeros(shape)
Zeros(shape) == [c \in Coords(shape) |-> 0]
\* a tensor whose elements all differ
Iota(shape) ==
    [c \in Coords(shape) |-> 10 * (c[1] + 1) + (IF Len(c) > 1 THEN c[2] + 1 ELSE 0)]
Full(shape, v) == [c \in Coords(shape) |-> v]

(***************************************************************************)
(* scatter                                                                 *)
(***************************************************************************)
ScatterVals == {3, 4}

\* the rows of indices after reshape(indices, [-1, index_length])
IndexRows(shape, index_length) == Coords(Prefix(shape, index_length))
\* the rows of values after reshape(values, [-1] + value_shape)
ValueRows(shape, index_length, vals) ==
    [Coords(Suffix(shape, index_length)) -> vals]

OverwriteRow(z, index, row) ==
    [c \in DOMAIN z |->
        IF Prefix(c, Len(index)) = index
        THEN row[Suffix(c, Len(index))]
        ELSE z[c]]

\* zeros[tuple(index)] += values[i]
AccumulateRow(z, index, row) ==
    [c \in DOMAIN z |->
        IF Prefix(c, Len(index)) = index
        THEN z[c] + row[Suffix(c, Len(index))]
        ELSE z[c]]

InitScatter ==
    /\ sc_pc = "idle"
    /\ sc_indices = <<>>
    /\ sc_values = <<>>
    /\ sc_shape = <<>>
    /\ zeros = <<>>
    /\ sc_i = 0

\* scatter(indices, values, shape) up to the loop
ScatterCall ==
    /\ sc_pc = "idle"
    /\ \E shape \in Shapes :
       \E index_length \in 1..Len(shape), n \in 0..MaxRows :
       \E indices \in [1..n -> IndexRows(shape, index_length)],
          values \in [1..n -> ValueRows(shape, index_length, ScatterVals)] :
          /\ sc_shape' = shape
          /\ sc_indices' = indices
          /\ sc_values' = values
          /\ zeros' = Zeros(shape)
    /\ sc_i' = 0
    /\ sc_pc' = "loop"

\* one turn of for i in range(indices.shape[0])
ScatterStep ==
    /\ sc_pc = "loop"
    /\ sc_i < Len(sc_indices)
    /\ zeros' = AccumulateRow(zeros, sc_indices[sc_i + 1], sc_values[sc_i + 1])
    /\ sc_i' = sc_i + 1
    /\ UNCHANGED <<sc_pc, sc_indices, sc_values, sc_shape>>

\* return zeros
ScatterReturn ==
    /\ sc_pc = "loop"
    /\ sc_i = Len(sc_indices)
    /\ sc_pc' = "done"
    /\ UNCHANGED <<sc_indices, sc_values, sc_shape, zeros, sc_i>>

NextScatter ==
    \/ ScatterCall /\ UNCHANGED ExceptScatter
    \/ ScatterStep /\ UNCHANGED ExceptScatter
    \/ ScatterReturn /\ UNCHANGED ExceptScatter

(***************************************************************************)
(* scatter_update.  inputs[tuple(indices)] = updates is index_put_ without *)
(* accumulate: where several index rows name one coordinate torch leaves   *)
(* open which of their updates is stored, so any of them may be.           *)
(***************************************************************************)
UpdateVals == {8, 9}

InitScatterUpdate ==
    /\ su_pc = "idle"
    /\ su_inputs = <<>>
    /\ su_indices = <<>>
    /\ su_updates = <<>>
    /\ su_out = <<>>

\* the index rows that name coordinate c
RowsAt(indices, index_length, c) ==
    {r \in 1..Len(indices) : indices[r] = Prefix(c, index_length)}

ScatterUpdate ==
    /\ su_pc = "idle"
    /\ \E shape \in Shapes :
       \E index_length \in 1..Len(shape), n \in 0..MaxRows :
       \E inputs \in {Zeros(shape), Iota(shape)},
          indices \in [1..n -> IndexRows(shape, index_length)],
          updates \in [1..n -> ValueRows(shape, index_length, UpdateVals)] :
       \E stored \in [Coords(shape) -> 0..n] :
          /\ \A c \in Coords(shape) :
                IF RowsAt(indices, index_length, c) = {}
                THEN stored[c] = 0
                ELSE stored[c] \in RowsAt(indices, index_length, c)
          /\ su_inputs' = inputs
          /\ su_indices' = indices
          /\ su_updates' = updates
          /\ su_out' =
                [c \in Coords(shape) |->
                    IF stored[c] = 0 THEN inputs[c]
                    ELSE updates[stored[c]][Suffix(c, index_length)]]
    /\ su_pc' = "done"

NextScatterUpdate == ScatterUpdate /\ UNCHANGED ExceptScatterUpdate


(***************************************************************************)
(* slice and slice_update.  A tensor here also has a dtype; storing into   *)
(* a tensor converts to its dtype.                                         *)
(***************************************************************************)
SliceDtypes == {"torch.int64", "torch.bool"}

DenseTensor(dt, shape, data) == [dtype |-> dt, shape |-> shape, data |-> data]

CastAll(data, dt) == [c \in DOMAIN data |-> CastVal(data[c], dt)]

\* python_slice(start, start + length) applied to an axis of size dim
SliceLo(start, dim) == Min(start, dim)

SliceHiShort(start, length, dim) == Min(start + length - 1, dim)

SliceHi(start, length, dim) == Min(start + length, dim)

\* the coordinates inputs[slices] selects, and the shape of the selection
Region(shape, start, lengths) ==
    {c \in Coords(shape) :
        \A i \in 1..Len(shape) :
            /\ SliceLo(start[i], shape[i]) <= c[i]
            /\ c[i] < SliceHi(start[i], lengths[i], shape[i])}

RegionShape(shape, start, lengths) ==
    [i \in 1..Len(shape) |->
        SliceHi(start[i], lengths[i], shape[i]) - SliceLo(start[i], shape[i])]

\* updates can be broadcast to the selection
Broadcasts(ushape, rshape) ==
    \A i \in 1..Len(rshape) : ushape[i] = rshape[i] \/ ushape[i] = 1

\* inputs[slices] = updates
SliceUpdateData(t, start, u) ==
    [c \in Coords(t.shape) |->
        IF c \in Region(t.shape, start, u.shape)
        THEN CastVal(
                u.data[[i \in 1..Len(c) |->
                          IF u.shape[i] = 1 THEN 0
                          ELSE c[i] - SliceLo(start[i], t.shape[i])]],
                t.dtype)
        ELSE t.data[c]]

\* inputs[slices]
SliceData(t, start, lengths) ==
    LET rshape == RegionShape(t.shape, start, lengths)
    IN  DenseTensor(t.dtype, rshape,
            [c \in {d \in [1..Len(rshape) -> 0..(MaxDim - 1)] :
                      \A i \in 1..Len(rshape) : d[i] < rshape[i]} |->
                t.data[[i \in 1..Len(c) |->
                          c[i] + SliceLo(start[i], t.shape[i])]]])

EmptyTensor == DenseTensor("None", <<>>, <<>>)

InitSlice ==
    /\ sl_pc = "idle"
    /\ sl_t = EmptyTensor
    /\ sl_start = <<>>
    /\ sl_updates = EmptyTensor
    /\ sl_inputs = EmptyTensor
    /\ sl_out = EmptyTensor

\* slice_update(inputs, start_indices, updates)
SliceUpdate ==
    /\ sl_pc = "idle"
    /\ \E shape \in Shapes, ushape \in Shapes, dt \in SliceDtypes, udt \in SliceDtypes :
       \E data \in {Zeros(shape), Iota(shape)},
          udata \in {Full(ushape, 5), Iota(ushape)},
          start \in [1..Len(shape) -> 0..MaxDim] :
          /\ Len(ushape) = Len(shape)
          /\ sl_t' = DenseTensor(dt, shape, CastAll(data, dt))
          /\ sl_start' = start
          /\ sl_updates' = DenseTensor(udt, ushape, CastAll(udata, udt))
          /\ IF Broadcasts(ushape, RegionShape(shape, start, ushape))
             THEN /\ sl_inputs' =
                        DenseTensor(dt, shape,
                            SliceUpdateData(
                                DenseTensor(dt, shape, CastAll(data, dt)), start,
                                DenseTensor(udt, ushape, CastAll(udata, udt))))
                  /\ sl_pc' = "updated"
             ELSE /\ sl_inputs' = EmptyTensor
                  /\ sl_pc' = "raised"
    /\ UNCHANGED sl_out

\* slice(inputs, start_indices, shape) of the updated tensor, with the
\* offsets and the shape of the update
Slice ==
    /\ sl_pc = "updated"
    /\ sl_out' = SliceData(sl_inputs, sl_start, sl_updates.shape)
    /\ sl_pc' = "sliced"
    /\ UNCHANGED <<sl_t, sl_start, sl_updates, sl_inputs>>

NextSlice ==
    \/ SliceUpdate /\ UNCHANGED ExceptSlice
    \/ Slice /\ UNCHANGED ExceptSlice

(***************************************************************************)
(* Specifications.                                                         *)
(***************************************************************************)
InitOps ==
    /\ InitInfer
    /\ InitScatter
    /\ InitScatterUpdate
    /\ InitSlice

Init ==
    /\ InitDevice
    /\ InitWhile
    /\ cuda_available \in BOOLEAN
    /\ InitDtype
    /\ InitConvert
    /\ InitVariable
    /\ InitOps

SpecDevice == Init /\ [][NextDevice]_vars
SpecWhile == Init /\ [][NextWhile]_vars
SpecVariable == Init /\ [][NextVariable]_vars
SpecInfer == Init /\ [][NextInfer]_vars
SpecScatter == Init /\ [][NextScatter]_vars
SpecScatterUpdate == Init /\ [][NextScatterUpdate]_vars
SpecSlice == Init /\ [][NextSlice]_vars

(***************************************************************************)
(* C1: leaving a device_scope block, normally or by an exception, sets the *)
(* override back to the value it had when that block was entered; blocks   *)
(* are left innermost first, so once the outermost block is left the       *)
(* override is again unset, as before the first block.                     *)
(***************************************************************************)
C1_ScopeRestores ==
    [][Len(scope_stack') < Len(scope_stack) =>
          /\ torch_device' = entered[Len(scope_stack)]
          /\ (scope_stack' = <<>> => torch_device' = "None")]_vars

\* an inner block left by an exception while an outer block, entered under a
\* different override, is still open
C1_Witness ==
    /\ raising
    /\ Len(scope_stack) = 1
    /\ Len(entered) = 1
    /\ torch_device \in Devices
    /\ scope_stack[1].previous_device = "None"

(***************************************************************************)
(* C2: while_loop returns the state after exactly j applications of body,  *)
(* j the least count at which cond is false or the cap is reached; body    *)
(* never runs more than maximum_iterations times; counting from 0 with     *)
(* cond i < 5 gives (5,) without a cap and (2,) with a cap of 2.           *)
(***************************************************************************)
RECURSIVE BodyPower(_, _, _)
BodyPower(b, lv, j) ==
    IF j = 0 THEN lv ELSE Normalize(EvalBody(b, BodyPower(b, lv, j - 1)))

StopsAt(j) ==
    \/ ~EvalCond(wl_cond, BodyPower(wl_body, wl_init, j))
    \/ j = wl_max

C2_WhileLoop ==
    /\ wl_max # NoCap => current_iter <= wl_max
    /\ wl_pc = "done" =>
          /\ StopsAt(current_iter)
          /\ \A i \in 0..(current_iter - 1) : ~StopsAt(i)
          /\ loop_vars = BodyPower(wl_body, wl_init, current_iter)
          /\ (/\ wl_init = <<0>>
              /\ wl_cond = [op |-> "lt", k |-> 5]
              /\ wl_body \in {"inc", "inc_list", "inc_scalar"})
             => /\ wl_max = NoCap => loop_vars = <<5>>
                /\ wl_max = 2 => loop_vars = <<2>>

C2_Witness ==
    /\ wl_pc = "done"
    /\ wl_init = <<0>>
    /\ wl_cond = [op |-> "lt", k |-> 5]
    /\ wl_body = "inc"
    /\ wl_max = 2
    /\ loop_vars = <<2>>

(***************************************************************************)
(* C8 as stated: convert_to_tensor applied to its own result, the device   *)
(* context unchanged, succeeds and gives the same values, dtype and device *)
(* as the first application, for every kind of input.                      *)
(***************************************************************************)
C8_Idempotent ==
    cv_pc = "twice" =>
        /\ cv_twice.kind = "tensor"
        /\ cv_twice.vals = cv_once.vals
        /\ cv_twice.dtype = cv_once.dtype
        /\ cv_twice.device = cv_once.device

(***************************************************************************)
(* C8 amended: for a scalar, a nested list, a host array and a native      *)
(* tensor the second application gives the same values, dtype and device.  *)
(* A Variable and a list of native tensors come back on the device their   *)
(* tensors already live on: there the second application is the same       *)
(* exactly when that device is the current one, and otherwise it either    *)
(* fails to reach the current device or gives the same values and dtype on *)
(* the current device.                                                     *)
(***************************************************************************)
C8_IdempotentOnCurrentDevice ==
    cv_pc = "twice" =>
        LET dev == GetDevice(torch_device, cuda_available)
            same == /\ cv_twice.kind = "tensor"
                    /\ cv_twice.vals = cv_once.vals
                    /\ cv_twice.dtype = cv_once.dtype
                    /\ cv_twice.device = cv_once.device
        IN  /\ cv_x.kind \in {"scalar", "list", "ndarray", "tensor"} => same
            /\ cv_x.kind \in {"variable", "tensor_list"} =>
                  /\ same <=> cv_once.device = dev
                  /\ cv_twice.kind = "tensor" =>
                        /\ cv_twice.vals = cv_once.vals
                        /\ cv_twice.dtype = cv_once.dtype
                        /\ cv_twice.device = dev

\* a host list converted twice while a device_scope("cpu") block is open on
\* a machine with CUDA
C8_Witness ==
    /\ cv_pc = "twice"
    /\ cv_x.kind = "list"
    /\ cuda_available
    /\ torch_device = "cpu"
    /\ cv_twice.device = "cpu"
    /\ cv_twice.dtype = "torch.float32"

(***************************************************************************)
(* C9: every name of the table resolves to a native dtype; naming that     *)
(* native dtype gives the name back except for uint16 (torch.int32) and    *)
(* uint32 (torch.int64), the only two names the round trip changes; a      *)
(* name without an entry raises.                                           *)
(***************************************************************************)
C9_DtypeRoundTrip ==
    /\ (dt_pc # "idle" /\ dt_in \in SupportedNames) =>
          /\ dt_pc \in {"resolved", "named"}
          /\ IsTorchDtype(dt_native)
          /\ dt_in = "uint16" => dt_native = "torch.int32"
          /\ dt_in = "uint32" => dt_native = "torch.int64"
    /\ (dt_pc = "named" /\ dt_in \in SupportedNames) =>
          (dt_back # dt_in <=> dt_in \in {"uint16", "uint32"})
    /\ (dt_pc # "idle" /\ dt_in \in UnmappedNames) =>
          dt_pc = "raised" /\ dt_native = "ValueError"

C9_Witness ==
    /\ dt_pc = "named"
    /\ dt_in = "uint32"
    /\ dt_native = "torch.int64"
    /\ dt_back = "int64"

(***************************************************************************)
(* C10 as stated: once initialized, a Variable holds a tensor of its       *)
(* declared dtype on the device that was current at construction, and it   *)
(* is the object made at construction, whatever is assigned later.         *)
(***************************************************************************)
C10_VariableInvariant ==
    \A v \in VarIds :
        var_value[v].kind = "tensor" =>
            /\ var_value[v].dtype = ToTorchDtype(var_dtype[v])
            /\ var_value[v].device = var_ctor_device[v]
            /\ var_value[v].id = v

(***************************************************************************)
(* C3: when an argument has an unknown dimension, fn is run with 83 and    *)
(* then with 89 in its place, and at every tensor position the result      *)
(* reports an axis as unknown exactly when its size differs between the    *)
(* two trials, and as the common size otherwise; an output axis that is    *)
(* an unknown input dimension is reported unknown, and an output of fixed  *)
(* size has only concrete sizes.                                           *)
(***************************************************************************)
C3_TwoTrials ==
    (cs_pc = "done" /\ NoneInShape(cs_args)) =>
        LET f1 == Flatten(outputs_1)
            f2 == Flatten(outputs_2)
            fr == Flatten(output_spec)
            fd == Flatten(Fns[cs_fn])
        IN  /\ cs_fills = <<83, 89>>
            /\ Len(fr) = Len(f1)
            /\ \A p \in 1..Len(f1) :
                  /\ fr[p].kind = "KerasTensor"
                  /\ Len(fr[p].shape) = Len(f1[p].shape)
                  /\ \A i \in 1..Len(f1[p].shape) :
                        /\ fr[p].shape[i] = NoneDim <=>
                              f1[p].shape[i] # f2[p].shape[i]
                        /\ f1[p].shape[i] = f2[p].shape[i] =>
                              fr[p].shape[i] = f1[p].shape[i]
                  /\ fd[p].form = "like" =>
                        \A i \in 1..Len(fr[p].shape) :
                            cs_args[fd[p].arg].shape[i] = NoneDim =>
                                fr[p].shape[i] = NoneDim
                  /\ fd[p].form = "axes" =>
                        /\ \A i \in 1..Len(fd[p].axes) :
                              (/\ fd[p].axes[i].op = "dim"
                               /\ cs_args[fd[p].arg].shape[fd[p].axes[i].ax] = NoneDim)
                              => fr[p].shape[i] = NoneDim
                        /\ (\A i \in 1..Len(fd[p].axes) : fd[p].axes[i].op = "const")
                              => \A i \in 1..Len(fr[p].shape) :
                                    fr[p].shape[i] = fd[p].axes[i].c

\* x -> a tensor of shape (x.shape[0] + 1, 3) on an input of shape (None, 2)
C3_Witness ==
    /\ cs_pc = "done"
    /\ cs_fn = 5
    /\ cs_args = <<KerasTensor(<<NoneDim, 2>>, "float32")>>
    /\ outputs_1 = Leaf(TorchTensor(<<84, 3>>, "torch.float32"))
    /\ outputs_2 = Leaf(TorchTensor(<<90, 3>>, "torch.float32"))
    /\ output_spec = Leaf(KerasTensor(<<NoneDim, 3>>, "float32"))

(***************************************************************************)
(* C4 as stated: whenever fn does not raise, compute_output_spec returns,  *)
(* and what it returns has the nested structure of fn's return value, a    *)
(* (shape, dtype) spec at every tensor leaf and every other leaf as it     *)
(* was, on the one-trial and on the two-trial path.                        *)
(***************************************************************************)
RECURSIVE Mirrors(_, _)
Mirrors(spec, out) ==
    /\ spec.node = out.node
    /\ IF out.node = "leaf"
       THEN IF out.val.kind = "tensor"
            THEN /\ spec.val.kind = "KerasTensor"
                 /\ Len(spec.val.shape) = Len(out.val.shape)
                 /\ spec.val.dtype = StandardizeDtype(out.val.dtype)
            ELSE spec.val = out.val
       ELSE /\ Len(spec.items) = Len(out.items)
            /\ \A i \in 1..Len(out.items) : Mirrors(spec.items[i], out.items[i])

C4_MirrorsStructure ==
    /\ cs_pc # "attribute_error"
    /\ cs_pc = "done" => Mirrors(output_spec, outputs_1)

(***************************************************************************)
(* C5: scatter returns a tensor of the given shape in which each           *)
(* coordinate holds the sum of the rows of values whose index row names    *)
(* it, and 0 where no row does; rows that repeat a coordinate add up, so   *)
(* scatter([[0],[0]], [3,4], shape=[1]) is [7].                            *)
(***************************************************************************)
RECURSIVE RowSum(_, _, _, _)
RowSum(indices, values, c, n) ==
    IF n = 0 THEN 0
    ELSE RowSum(indices, values, c, n - 1)
         + (IF indices[n] = SubSeq(c, 1, Len(indices[n]))
            THEN values[n][SubSeq(c, Len(indices[n]) + 1, Len(c))]
            ELSE 0)

LastRow(rows) == CHOOSE r \in rows : \A q \in rows : q <= r

C6_LastWriteWins ==
    su_pc = "done" =>
        LET index_length ==
                IF Len(su_indices) = 0 THEN 0 ELSE Len(su_indices[1])
        IN  \A c \in DOMAIN su_inputs :
                LET rows == {r \in 1..Len(su_indices) :
                                su_indices[r] = SubSeq(c, 1, index_length)}
                IN  su_out[c] =
                        IF rows = {} THEN su_inputs[c]
                        ELSE su_updates[LastRow(rows)][SubSeq(c, index_length + 1, Len(c))]

(***************************************************************************)
(* C7 as stated: for an update u that fits inside t at s, slicing the      *)
(* result of slice_update(t, s, u) at s with the shape of u gives u, and   *)
(* every element of t outside [s, s + shape(u)) is unchanged.              *)
(***************************************************************************)
Fits ==
    \A i \in 1..Len(sl_start) : sl_start[i] + sl_updates.shape[i] <= sl_t.shape[i]

Outside(c) ==
    \E i \in 1..Len(c) :
        c[i] < sl_start[i] \/ c[i] >= sl_start[i] + sl_updates.shape[i]

OutsideUnchanged ==
    /\ sl_inputs.shape = sl_t.shape
    /\ sl_inputs.dtype = sl_t.dtype
    /\ \A c \in Coords(sl_t.shape) : Outside(c) => sl_inputs.data[c] = sl_t.data[c]

C7_SliceRecoversUpdate ==
    (sl_pc # "idle" /\ Fits) =>
        /\ sl_pc \in {"updated", "sliced"}
        /\ OutsideUnchanged
        /\ sl_pc = "sliced" =>
              /\ sl_out.shape = sl_updates.shape
              /\ sl_out.data = sl_updates.data

(***************************************************************************)
(* C7 amended: for an update u that fits inside t at s, slice_update       *)
(* succeeds and leaves every element outside [s, s + shape(u)) unchanged,  *)
(* and slicing its result at s with the shape of u gives u converted to    *)
(* the dtype of t: it is u when u has the dtype of t, and it has the       *)
(* values of u exactly when these survive the conversion.  With t and u    *)
(* of one integer dtype, slice(slice_update(t, [0], [5,5]), [0], [2]) is   *)
(* [5,5].                                                                  *)
(***************************************************************************)
C7_SliceRecoversConvertedUpdate ==
    (sl_pc # "idle" /\ Fits) =>
        /\ sl_pc \in {"updated", "sliced"}
        /\ OutsideUnchanged
        /\ sl_pc = "sliced" =>
              /\ sl_out.shape = sl_updates.shape
              /\ sl_out.dtype = sl_t.dtype
              /\ sl_out.data = CastAll(sl_updates.data, sl_t.dtype)
              /\ sl_updates.dtype = sl_t.dtype => sl_out = sl_updates
              /\ sl_out.data = sl_updates.data <=>
                    \A c \in DOMAIN sl_updates.data :
                        CastVal(sl_updates.data[c], sl_t.dtype) = sl_updates.data[c]
              /\ (/\ sl_t.dtype = "torch.int64"
                  /\ sl_start = <<0>>
                  /\ sl_updates = DenseTensor("torch.int64", <<2>>, Full(<<2>>, 5)))
                 => sl_out.data = (<<0>> :> 5 @@ <<1>> :> 5)

\* a block of two fives stored at offset 1 of a tensor of three elements
\* and read back
C7_Witness ==
    /\ sl_pc = "sliced"
    /\ Fits
    /\ sl_t = DenseTensor("torch.int64", <<3>>, Iota(<<3>>))
    /\ sl_start = <<1>>
    /\ sl_updates = DenseTensor("torch.int64", <<2>>, Full(<<2>>, 5))
    /\ sl_inputs.data = (<<0>> :> 10 @@ <<1>> :> 5 @@ <<2>> :> 5)
    /\ sl_out.data = (<<0>> :> 5 @@ <<1>> :> 5)
====
